---------------------------- MODULE Spec2Model ----------------------------
(***************************************************************************)
(* A model of the 6502 interpreter of nes-browser-attempt: the register    *)
(* file, the status flags, the 64KB memory bus with its PPU window, the    *)
(* opcode table, step() and the run loop that drives it.                   *)
(*                                                                         *)
(* The CPU state is carried through the instruction handlers as a record   *)
(* s with the fields registers, flags, memory, running, cycle, console,    *)
(* ppu and busWrites.  A function of the source that both returns a value  *)
(* and changes the state yields a record [val, st].                        *)
(***************************************************************************)
EXTENDS Integers, Sequences, FiniteSets, TLC

VARIABLES
  registers,  \* A, X, Y, SP, PC, P
  flags,      \* N, V, B, D, I, Z, C
  memory,     \* the 64KB array, kept sparsely: the non-zero bytes
  running,    \* the run loop's flag
  cycle,      \* the instruction counter
  console,    \* the lines written to the console, in order
  ppu,        \* the calls received by the PPU sink writeRegister, in order
  busWrites,  \* the calls made to writeByte, in order (observation)
  fetched,    \* address and value of the opcode byte of the last step()
  image,      \* the memory as the loader left it
  phase,      \* position of the harness: "loaded", "run", "done"
  lastOp      \* the operation that produced the current state

vars == <<registers, flags, memory, running, cycle, console, ppu, busWrites,
          fetched, image, phase, lastOp>>

-----------------------------------------------------------------------------
(* Bounds of the model *)

\* the run loop is followed for at most MaxSteps calls of step()
MaxSteps == 6

\* a program run from drawn operands is followed for at most MaxRun calls
MaxRun == 16

(* Program constants *)
MEMORY_SIZE == 65536

STACK_BASE == \h0100
PPU_FIRST == \h2000
PPU_LAST == \h3FFF
RESET_VECTOR == \hFFFC
LOAD_ADDRESS == \h8000

Byte == 0..255
Bit == {0, 1}
Word == 0..65535

-----------------------------------------------------------------------------
(* The bitwise operators of JavaScript on 32-bit two's-complement integers. *)
(* -1 is the integer with every bit set; \div rounds down, so x \div 2 is    *)
(* the arithmetic shift and x % 2 the lowest bit, also for x < 0.  No value  *)
(* of the program comes near bit 31, so a << n is a * 2^n.                   *)

Not(a) == (0 - a) - 1

RECURSIVE And(_, _)
And(a, b) ==
  IF a = 0 \/ b = 0 THEN 0
  ELSE IF a = 0 - 1 THEN b
  ELSE IF b = 0 - 1 THEN a
  ELSE 2 * And(a \div 2, b \div 2) + (IF a % 2 = 1 /\ b % 2 = 1 THEN 1 ELSE 0)

RECURSIVE Or(_, _)
Or(a, b) ==
  IF a = 0 THEN b
  ELSE IF b = 0 THEN a
  ELSE IF a = 0 - 1 \/ b = 0 - 1 THEN 0 - 1
  ELSE 2 * Or(a \div 2, b \div 2) + (IF a % 2 = 1 \/ b % 2 = 1 THEN 1 ELSE 0)

RECURSIVE Xor(_, _)
Xor(a, b) ==
  IF a = 0 THEN b
  ELSE IF b = 0 THEN a
  ELSE IF a = 0 - 1 THEN Not(b)
  ELSE IF b = 0 - 1 THEN Not(a)
  ELSE 2 * Xor(a \div 2, b \div 2) + (IF a % 2 # b % 2 THEN 1 ELSE 0)

\* a << n and a >> n
Shl(a, n) == a * (2 ^ n)
Shr(a, n) == a \div (2 ^ n)

\* x & 0xFF and x & 0xFFFF, for any 32-bit x
Mask8(x) == x % 256
Mask16(x) == x % 65536

-----------------------------------------------------------------------------
(* Number.prototype.toString(16) and String.prototype.padStart *)

HexChars == <<"0", "1", "2", "3", "4", "5", "6", "7",
              "8", "9", "a", "b", "c", "d", "e", "f">>

RECURSIVE HexDigits(_)
HexDigits(n) ==
  IF n < 16 THEN <<HexChars[n + 1]>>
  ELSE Append(HexDigits(n \div 16), HexChars[(n % 16) + 1])

RECURSIVE DecDigits(_)
DecDigits(n) ==
  IF n < 10 THEN <<HexChars[n + 1]>>
  ELSE Append(DecDigits(n \div 10), HexChars[(n % 10) + 1])

\* the decimal text of a template literal ${n}
toString10(n) == IF n < 0 THEN <<"-">> \o DecDigits(0 - n) ELSE DecDigits(n)

toString16(n) == IF n < 0 THEN <<"-">> \o HexDigits(0 - n) ELSE HexDigits(n)

RECURSIVE padStart(_, _, _)
padStart(str, len, ch) ==
  IF Len(str) >= len THEN str ELSE padStart(<<ch>> \o str, len, ch)

-----------------------------------------------------------------------------
(* The memory array: a Uint8Array of MEMORY_SIZE zero bytes.  Only the      *)
(* non-zero bytes are kept; an index outside the array stores nothing.      *)

MemAt(m, a) == IF a \in DOMAIN m THEN m[a] ELSE 0

MemPut(m, a, v) ==
  IF a < 0 \/ a >= MEMORY_SIZE THEN m
  ELSE IF v % 256 = 0 THEN [x \in (DOMAIN m) \ {a} |-> m[x]]
  ELSE [x \in (DOMAIN m) \cup {a} |-> IF x = a THEN v % 256 ELSE m[x]]

EmptyMemory == [x \in {} |-> 0]

-----------------------------------------------------------------------------
(* Memory helpers *)

fetchByte(s) ==
  [val |-> MemAt(s.memory, s.registers.PC),
   st  |-> [s EXCEPT !.registers.PC = Mask16(s.registers.PC + 1)]]

fetchWord(s) ==
  LET lo == fetchByte(s)
      hi == fetchByte(lo.st)
  IN  [val |-> Or(Shl(hi.val, 8), lo.val), st |-> hi.st]

fetchSignedByte(s) ==
  LET f == fetchByte(s)
  IN  [val |-> IF f.val < 128 THEN f.val ELSE f.val - 256, st |-> f.st]

readByte(s, addr) == MemAt(s.memory, Mask16(addr))

\* the PPU sink: every register case is an empty stub; any other address warns
writeRegister(s, addr, value) ==
  LET t == [s EXCEPT !.ppu = Append(@, [addr |-> addr, value |-> value])]
  IN  IF addr \in {8192, 8193, 8195, 8196, 8197, 8198, 8199}
      THEN t
      ELSE [t EXCEPT !.console =
              Append(@, [kind |-> "ppu-warn", addr |-> toString16(addr)])]

\* writeByte without the PPU window: every write is stored
writeByteStoresAll(s, addr, val) ==
  LET a == Mask16(addr)
      t == [s EXCEPT !.busWrites = Append(@, [addr |-> addr, val |-> val])]
  IN  [t EXCEPT !.memory = MemPut(@, a, Mask8(val))]

\* writeByte handing the sink the bus address as it is
writeByteUnfolded(s, addr, val) ==
  LET a == Mask16(addr)
      t == [s EXCEPT !.busWrites = Append(@, [addr |-> addr, val |-> val])]
  IN  IF a >= PPU_FIRST /\ a <= PPU_LAST
      THEN writeRegister(t, a, val)
      ELSE [t EXCEPT !.memory = MemPut(@, a, Mask8(val))]

writeByte(s, addr, val) ==
  LET a == Mask16(addr)
      t == [s EXCEPT !.busWrites = Append(@, [addr |-> addr, val |-> val])]
  IN  IF a >= PPU_FIRST /\ a <= PPU_LAST
      THEN writeRegister(t, PPU_FIRST + (a % 8), val)
      ELSE [t EXCEPT !.memory = MemPut(@, a, Mask8(val))]

\* updateZeroNegativeFlags leaving Z as it was
updateNegativeFlagOnly(s, value) ==
  [s EXCEPT !.flags.N = IF And(value, 128) # 0 THEN 1 ELSE 0]

updateZeroNegativeFlags(s, value) ==
  [s EXCEPT !.flags.Z = IF value = 0 THEN 1 ELSE 0,
            !.flags.N = IF And(value, 128) # 0 THEN 1 ELSE 0]

-----------------------------------------------------------------------------
(* Stack helpers *)

pushByte(s, value) ==
  LET t == writeByte(s, STACK_BASE + s.registers.SP, value)
  IN  [t EXCEPT !.registers.SP = Mask8(s.registers.SP - 1)]

\* pullByte reading the stack before it moves SP
pullByteReadsFirst(s) ==
  LET t == [s EXCEPT !.registers.SP = Mask8(s.registers.SP + 1)]
  IN  [val |-> readByte(s, STACK_BASE + s.registers.SP), st |-> t]

pullByte(s) ==
  LET t == [s EXCEPT !.registers.SP = Mask8(s.registers.SP + 1)]
  IN  [val |-> readByte(t, STACK_BASE + t.registers.SP), st |-> t]

\* pushWord pushing the low byte first
pushWordLowFirst(s, value) ==
  pushByte(pushByte(s, Mask8(value)), Mask8(Shr(value, 8)))

pushWord(s, value) ==
  pushByte(pushByte(s, Mask8(Shr(value, 8))), Mask8(value))

pullWord(s) ==
  LET lo == pullByte(s)
      hi == pullByte(lo.st)
  IN  [val |-> Or(Shl(hi.val, 8), lo.val), st |-> hi.st]

-----------------------------------------------------------------------------
(* Flag helpers *)

\* packFlags with N and V in each other's bit
packFlagsSwapped(s) ==
  LET f == s.flags
  IN  Or(Or(Or(Or(Or(Or(Or(Shl(f.V, 7), Shl(f.N, 6)), Shl(1, 5)), Shl(f.B, 4)),
                  Shl(f.D, 3)), Shl(f.I, 2)), Shl(f.Z, 1)), f.C)

packFlags(s) ==
  LET f == s.flags
  IN  Or(Or(Or(Or(Or(Or(Or(Shl(f.N, 7), Shl(f.V, 6)), Shl(1, 5)), Shl(f.B, 4)),
                  Shl(f.D, 3)), Shl(f.I, 2)), Shl(f.Z, 1)), f.C)

unpackFlags(s, p) ==
  [s EXCEPT !.flags = [N |-> And(Shr(p, 7), 1), V |-> And(Shr(p, 6), 1),
                       B |-> And(Shr(p, 4), 1), D |-> And(Shr(p, 3), 1),
                       I |-> And(Shr(p, 2), 1), Z |-> And(Shr(p, 1), 1),
                       C |-> And(p, 1)]]

-----------------------------------------------------------------------------
(* Reset CPU *)

reset(s) ==
  [s EXCEPT !.registers.SP = 253,
            !.registers.P = 36,
            !.registers.PC = Or(Shl(MemAt(s.memory, RESET_VECTOR + 1), 8),
                                MemAt(s.memory, RESET_VECTOR))]

-----------------------------------------------------------------------------
(* Instruction implementations *)

ldaImmediate(s) ==
  LET f == fetchByte(s)
  IN  updateZeroNegativeFlags([f.st EXCEPT !.registers.A = f.val], f.val)

ldxImmediate(s) ==
  LET f == fetchByte(s)
  IN  updateZeroNegativeFlags([f.st EXCEPT !.registers.X = f.val], f.val)

ldyImmediate(s) ==
  LET f == fetchByte(s)
  IN  updateZeroNegativeFlags([f.st EXCEPT !.registers.Y = f.val], f.val)

\* staAbsolute storing X instead of A
staAbsoluteFromX(s) ==
  LET f == fetchWord(s)
  IN  writeByte(f.st, f.val, f.st.registers.X)

staAbsolute(s) ==
  LET f == fetchWord(s)
  IN  writeByte(f.st, f.val, f.st.registers.A)

BrkLine == [kind |-> "brk"]

\* brk without its console line
brkSilent(s) == [s EXCEPT !.running = FALSE]

\* brk as the hardware has it: B and I set
brkSetsFlags(s) ==
  [s EXCEPT !.console = Append(@, BrkLine), !.running = FALSE,
            !.flags.B = 1, !.flags.I = 1]

brk(s) == [s EXCEPT !.console = Append(@, BrkLine), !.running = FALSE]

\* inx without the & 0xFF
inxUnmasked(s) ==
  LET x == s.registers.X + 1
  IN  updateZeroNegativeFlags([s EXCEPT !.registers.X = x], x)

inx(s) ==
  LET x == Mask8(s.registers.X + 1)
  IN  updateZeroNegativeFlags([s EXCEPT !.registers.X = x], x)

iny(s) ==
  LET y == Mask8(s.registers.Y + 1)
  IN  updateZeroNegativeFlags([s EXCEPT !.registers.Y = y], y)

dex(s) ==
  LET x == Mask8(s.registers.X - 1)
  IN  updateZeroNegativeFlags([s EXCEPT !.registers.X = x], x)

dey(s) ==
  LET y == Mask8(s.registers.Y - 1)
  IN  updateZeroNegativeFlags([s EXCEPT !.registers.Y = y], y)

jmpAbsolute(s) ==
  LET f == fetchWord(s)
  IN  [f.st EXCEPT !.registers.PC = f.val]

nop(s) == s

staZeroPage(s) ==
  LET f == fetchByte(s)
  IN  writeByte(f.st, f.val, f.st.registers.A)

stxZeroPage(s) ==
  LET f == fetchByte(s)
  IN  writeByte(f.st, f.val, f.st.registers.X)

styZeroPage(s) ==
  LET f == fetchByte(s)
  IN  writeByte(f.st, f.val, f.st.registers.Y)

\* adc ignoring the carry flag on input
adcNoCarryIn(s, value) ==
  LET a == s.registers.A
      result == a + value
      overflow == And(And(Not(Xor(a, value)), Xor(a, result)), 128)
      t == [s EXCEPT !.flags.C = IF result > 255 THEN 1 ELSE 0,
                     !.flags.V = IF overflow # 0 THEN 1 ELSE 0,
                     !.registers.A = Mask8(result)]
  IN  updateZeroNegativeFlags(t, t.registers.A)

\* adc adjusting the sum to decimal when D is set
adcDecimal(s, value) ==
  LET a == s.registers.A
      carryIn == s.flags.C
      adjust == IF s.flags.D = 1 /\ (a % 16) + (value % 16) + carryIn > 9
                THEN 6 ELSE 0
      result == a + value + carryIn + adjust
      overflow == And(And(Not(Xor(a, value)), Xor(a, result)), 128)
      t == [s EXCEPT !.flags.C = IF result > 255 THEN 1 ELSE 0,
                     !.flags.V = IF overflow # 0 THEN 1 ELSE 0,
                     !.registers.A = Mask8(result)]
  IN  updateZeroNegativeFlags(t, t.registers.A)

\* the body shared by adcImmediate, adcZeroPage and adcAbsolute once the
\* operand value is known
adcValue(s, value) ==
  LET a == s.registers.A
      carryIn == s.flags.C
      result == a + value + carryIn
      overflow == And(And(Not(Xor(a, value)), Xor(a, result)), 128)
      t == [s EXCEPT !.flags.C = IF result > 255 THEN 1 ELSE 0,
                     !.flags.V = IF overflow # 0 THEN 1 ELSE 0,
                     !.registers.A = Mask8(result)]
  IN  updateZeroNegativeFlags(t, t.registers.A)

\* sbc ignoring the carry flag on input
sbcNoBorrowIn(s, value) ==
  LET a == s.registers.A
      result == a - value
      overflow == And(And(Xor(a, result), Xor(a, value)), 128)
      t == [s EXCEPT !.flags.C = IF result >= 0 THEN 1 ELSE 0,
                     !.flags.V = IF overflow # 0 THEN 1 ELSE 0,
                     !.registers.A = Mask8(result)]
  IN  updateZeroNegativeFlags(t, t.registers.A)

\* the body shared by sbcImmediate, sbcZeroPage and sbcAbsolute
sbcValue(s, value) ==
  LET a == s.registers.A
      carryIn == s.flags.C
      result == a - value - (1 - carryIn)
      overflow == And(And(Xor(a, result), Xor(a, value)), 128)
      t == [s EXCEPT !.flags.C = IF result >= 0 THEN 1 ELSE 0,
                     !.flags.V = IF overflow # 0 THEN 1 ELSE 0,
                     !.registers.A = Mask8(result)]
  IN  updateZeroNegativeFlags(t, t.registers.A)

adcImmediate(s) ==
  LET f == fetchByte(s)
  IN  adcValue(f.st, f.val)

sbcImmediate(s) ==
  LET f == fetchByte(s)
  IN  sbcValue(f.st, f.val)

andImmediate(s) ==
  LET f == fetchByte(s)
      a == And(f.st.registers.A, f.val)
  IN  updateZeroNegativeFlags([f.st EXCEPT !.registers.A = a], a)

oraImmediate(s) ==
  LET f == fetchByte(s)
      a == Or(f.st.registers.A, f.val)
  IN  updateZeroNegativeFlags([f.st EXCEPT !.registers.A = a], a)

eorImmediate(s) ==
  LET f == fetchByte(s)
      a == Xor(f.st.registers.A, f.val)
  IN  updateZeroNegativeFlags([f.st EXCEPT !.registers.A = a], a)

\* cmpImmediate as the earlier version of the file has it: the difference
\* is kept unmasked and masked where it is tested
cmpImmediateFund(s) ==
  LET f == fetchByte(s)
      result == f.st.registers.A - f.val
  IN  [f.st EXCEPT !.flags.C = IF f.st.registers.A >= f.val THEN 1 ELSE 0,
                   !.flags.Z = IF And(result, 255) = 0 THEN 1 ELSE 0,
                   !.flags.N = IF And(result, 128) # 0 THEN 1 ELSE 0]

\* cmpImmediate setting the carry only when A is greater
cmpImmediateStrict(s) ==
  LET f == fetchByte(s)
      result == Mask8(f.st.registers.A - f.val)
  IN  [f.st EXCEPT !.flags.C = IF f.st.registers.A > f.val THEN 1 ELSE 0,
                   !.flags.Z = IF result = 0 THEN 1 ELSE 0,
                   !.flags.N = IF And(result, 128) # 0 THEN 1 ELSE 0]

cmpImmediate(s) ==
  LET f == fetchByte(s)
      result == Mask8(f.st.registers.A - f.val)
  IN  [f.st EXCEPT !.flags.C = IF f.st.registers.A >= f.val THEN 1 ELSE 0,
                   !.flags.Z = IF result = 0 THEN 1 ELSE 0,
                   !.flags.N = IF And(result, 128) # 0 THEN 1 ELSE 0]

\* bne fetching its offset only when the branch is taken
bneSkipsOffset(s) ==
  IF s.flags.Z = 0
  THEN LET f == fetchByte(s)
           offset == IF And(f.val, 128) # 0 THEN f.val - 256 ELSE f.val
       IN  [f.st EXCEPT !.registers.PC = Mask16(f.st.registers.PC + offset)]
  ELSE s

bne(s) ==
  LET f == fetchByte(s)
      offset == IF And(f.val, 128) # 0 THEN f.val - 256 ELSE f.val
  IN  IF f.st.flags.Z = 0
      THEN [f.st EXCEPT !.registers.PC = Mask16(f.st.registers.PC + offset)]
      ELSE f.st

beq(s) ==
  LET f == fetchByte(s)
      offset == IF And(f.val, 128) # 0 THEN f.val - 256 ELSE f.val
  IN  IF f.st.flags.Z = 1
      THEN [f.st EXCEPT !.registers.PC = Mask16(f.st.registers.PC + offset)]
      ELSE f.st

incZeroPage(s) ==
  LET f == fetchByte(s)
      value == Mask8(readByte(f.st, f.val) + 1)
  IN  updateZeroNegativeFlags(writeByte(f.st, f.val, value), value)

decZeroPage(s) ==
  LET f == fetchByte(s)
      value == Mask8(readByte(f.st, f.val) - 1)
  IN  updateZeroNegativeFlags(writeByte(f.st, f.val, value), value)

aslAccumulator(s) ==
  LET a == Mask8(Shl(s.registers.A, 1))
  IN  updateZeroNegativeFlags(
        [s EXCEPT !.flags.C = And(Shr(s.registers.A, 7), 1), !.registers.A = a], a)

lsrAccumulator(s) ==
  LET a == Mask8(Shr(s.registers.A, 1))
  IN  updateZeroNegativeFlags(
        [s EXCEPT !.flags.C = And(s.registers.A, 1), !.registers.A = a], a)

rolAccumulator(s) ==
  LET newCarry == And(Shr(s.registers.A, 7), 1)
      a == Mask8(Or(Shl(s.registers.A, 1), s.flags.C))
  IN  updateZeroNegativeFlags(
        [s EXCEPT !.registers.A = a, !.flags.C = newCarry], a)

\* ror shifting a zero into bit 7
rorWithoutCarryIn(s) ==
  LET newCarry == And(s.registers.A, 1)
      a == Mask8(Shr(s.registers.A, 1))
  IN  updateZeroNegativeFlags(
        [s EXCEPT !.registers.A = a, !.flags.C = newCarry], a)

rorAccumulator(s) ==
  LET newCarry == And(s.registers.A, 1)
      a == Mask8(Or(Shr(s.registers.A, 1), Shl(s.flags.C, 7)))
  IN  updateZeroNegativeFlags(
        [s EXCEPT !.registers.A = a, !.flags.C = newCarry], a)

txa(s) ==
  updateZeroNegativeFlags([s EXCEPT !.registers.A = s.registers.X], s.registers.X)

tya(s) ==
  updateZeroNegativeFlags([s EXCEPT !.registers.A = s.registers.Y], s.registers.Y)

tax(s) ==
  updateZeroNegativeFlags([s EXCEPT !.registers.X = s.registers.A], s.registers.A)

tay(s) ==
  updateZeroNegativeFlags([s EXCEPT !.registers.Y = s.registers.A], s.registers.A)

ldaZeroPage(s) ==
  LET f == fetchByte(s)
      a == readByte(f.st, f.val)
  IN  updateZeroNegativeFlags([f.st EXCEPT !.registers.A = a], a)

ldaAbsolute(s) ==
  LET f == fetchWord(s)
      a == readByte(f.st, f.val)
  IN  updateZeroNegativeFlags([f.st EXCEPT !.registers.A = a], a)

ldxZeroPage(s) ==
  LET f == fetchByte(s)
      x == readByte(f.st, f.val)
  IN  updateZeroNegativeFlags([f.st EXCEPT !.registers.X = x], x)

ldxAbsolute(s) ==
  LET f == fetchWord(s)
      x == readByte(f.st, f.val)
  IN  updateZeroNegativeFlags([f.st EXCEPT !.registers.X = x], x)

ldyZeroPage(s) ==
  LET f == fetchByte(s)
      y == readByte(f.st, f.val)
  IN  updateZeroNegativeFlags([f.st EXCEPT !.registers.Y = y], y)

ldyAbsolute(s) ==
  LET f == fetchWord(s)
      y == readByte(f.st, f.val)
  IN  updateZeroNegativeFlags([f.st EXCEPT !.registers.Y = y], y)

staAbsoluteX(s) ==
  LET f == fetchWord(s)
      addr == Mask16(f.val + f.st.registers.X)
  IN  writeByte(f.st, addr, f.st.registers.A)

adcZeroPage(s) ==
  LET f == fetchByte(s)
  IN  adcValue(f.st, readByte(f.st, f.val))

sbcZeroPage(s) ==
  LET f == fetchByte(s)
  IN  sbcValue(f.st, readByte(f.st, f.val))

pha(s) == pushByte(s, s.registers.A)

pla(s) ==
  LET p == pullByte(s)
  IN  updateZeroNegativeFlags([p.st EXCEPT !.registers.A = p.val], p.val)

\* php pushing the flags without the break bit
phpWithoutBreak(s) == pushByte(s, packFlags(s))

php(s) == pushByte(s, Or(packFlags(s), 16))

plp(s) ==
  LET p == pullByte(s)
  IN  unpackFlags(p.st, p.val)

\* jsr pushing the address of the next instruction
jsrPushesNext(s) ==
  LET f == fetchWord(s)
      t == pushWord(f.st, f.st.registers.PC)
  IN  [t EXCEPT !.registers.PC = f.val]

jsr(s) ==
  LET f == fetchWord(s)
      t == pushWord(f.st, f.st.registers.PC - 1)
  IN  [t EXCEPT !.registers.PC = f.val]

rts(s) ==
  LET p == pullWord(s)
  IN  [p.st EXCEPT !.registers.PC = Mask16(p.val + 1)]

bitZeroPage(s) ==
  LET f == fetchByte(s)
      val == readByte(f.st, f.val)
  IN  [f.st EXCEPT !.flags.Z = IF And(f.st.registers.A, val) = 0 THEN 1 ELSE 0,
                   !.flags.N = IF And(val, 128) # 0 THEN 1 ELSE 0,
                   !.flags.V = IF And(val, 64) # 0 THEN 1 ELSE 0]

\* ldaZeroPageX without the wrap to the zero page
ldaZeroPageXUnwrapped(s) ==
  LET f == fetchByte(s)
      addr == f.val + f.st.registers.X
      a == readByte(f.st, addr)
  IN  updateZeroNegativeFlags([f.st EXCEPT !.registers.A = a], a)

ldaZeroPageX(s) ==
  LET f == fetchByte(s)
      addr == Mask8(f.val + f.st.registers.X)
      a == readByte(f.st, addr)
  IN  updateZeroNegativeFlags([f.st EXCEPT !.registers.A = a], a)

aslZeroPage(s) ==
  LET f == fetchByte(s)
      value == readByte(f.st, f.val)
      result == Mask8(Shl(value, 1))
      t == writeByte([f.st EXCEPT !.flags.C = And(Shr(value, 7), 1)], f.val, result)
  IN  updateZeroNegativeFlags(t, result)

lsrZeroPage(s) ==
  LET f == fetchByte(s)
      value == readByte(f.st, f.val)
      result == Mask8(Shr(value, 1))
      t == writeByte([f.st EXCEPT !.flags.C = And(value, 1)], f.val, result)
  IN  updateZeroNegativeFlags(t, result)

txs(s) == [s EXCEPT !.registers.SP = s.registers.X]

\* bpl adding its offset as an unsigned byte
bplUnsigned(s) ==
  LET f == fetchByte(s)
  IN  IF f.st.flags.N = 0
      THEN [f.st EXCEPT !.registers.PC = Mask16(f.st.registers.PC + f.val)]
      ELSE f.st

bpl(s) ==
  LET f == fetchSignedByte(s)
  IN  IF f.st.flags.N = 0
      THEN [f.st EXCEPT !.registers.PC = Mask16(f.st.registers.PC + f.val)]
      ELSE f.st

adcAbsolute(s) ==
  LET f == fetchWord(s)
  IN  adcValue(f.st, readByte(f.st, f.val))

sbcAbsolute(s) ==
  LET f == fetchWord(s)
  IN  sbcValue(f.st, readByte(f.st, f.val))

\* clv clearing the carry too
clvClearsCarry(s) == [s EXCEPT !.flags.V = 0, !.flags.C = 0]

sec(s) == [s EXCEPT !.flags.C = 1]
sed(s) == [s EXCEPT !.flags.D = 1]
sei(s) == [s EXCEPT !.flags.I = 1]
cld(s) == [s EXCEPT !.flags.D = 0]
cli(s) == [s EXCEPT !.flags.I = 0]
clv(s) == [s EXCEPT !.flags.V = 0]
clc(s) == [s EXCEPT !.flags.C = 0]

-----------------------------------------------------------------------------
(* Opcode table *)

instructionTable ==
  [op \in {} |-> ""] @@
  \hA9 :> "ldaImmediate" @@ \h8D :> "staAbsolute" @@ \h00 :> "brk" @@
  \hE8 :> "inx" @@ \hC8 :> "iny" @@ \hCA :> "dex" @@ \h88 :> "dey" @@
  \h4C :> "jmpAbsolute" @@ \hEA :> "nop" @@ \hA2 :> "ldxImmediate" @@
  \hA0 :> "ldyImmediate" @@ \h85 :> "staZeroPage" @@ \h86 :> "stxZeroPage" @@
  \h87 :> "styZeroPage" @@ \h69 :> "adcImmediate" @@ \hE9 :> "sbcImmediate" @@
  \h29 :> "andImmediate" @@ \h09 :> "oraImmediate" @@ \h49 :> "eorImmediate" @@
  \h18 :> "clc" @@ \hC9 :> "cmpImmediate" @@ \hD0 :> "bne" @@ \hF0 :> "beq" @@
  \hE6 :> "incZeroPage" @@ \hC6 :> "decZeroPage" @@ \h0A :> "aslAccumulator" @@
  \h4A :> "lsrAccumulator" @@ \h2A :> "rolAccumulator" @@
  \h6A :> "rorAccumulator" @@ \h8A :> "txa" @@ \h98 :> "tya" @@ \hAA :> "tax" @@
  \hA8 :> "tay" @@ \hA5 :> "ldaZeroPage" @@ \hAD :> "ldaAbsolute" @@
  \hB5 :> "ldaZeroPageX" @@ \hBD :> "staAbsoluteX" @@ \h06 :> "aslZeroPage" @@
  \h46 :> "lsrZeroPage" @@ \h9A :> "txs" @@ \h60 :> "rts" @@ \h48 :> "pha" @@
  \h68 :> "pla" @@ \h08 :> "php" @@ \h28 :> "plp" @@ \h24 :> "bitZeroPage" @@
  \h38 :> "sec" @@ \hF8 :> "sed" @@ \hD8 :> "cld" @@ \h78 :> "sei" @@
  \h58 :> "cli" @@ \hB8 :> "clv" @@ \h10 :> "bpl" @@ \h20 :> "jsr" @@
  \hA6 :> "ldxZeroPage" @@ \hAE :> "ldxAbsolute" @@ \hB6 :> "ldyZeroPage" @@
  \hBE :> "ldyAbsolute" @@ \h65 :> "adcZeroPage" @@ \h75 :> "adcZeroPage" @@
  \h6D :> "adcAbsolute" @@ \h7D :> "adcAbsolute" @@ \h61 :> "sbcZeroPage" @@
  \h71 :> "sbcZeroPage" @@ \h6E :> "sbcAbsolute" @@ \h7E :> "sbcAbsolute"

\* instruction(): the call of the handler a table entry names
Call(name, s) ==
  CASE name = "ldaImmediate" -> ldaImmediate(s)
    [] name = "staAbsolute" -> staAbsolute(s)
    [] name = "brk" -> brk(s)
    [] name = "inx" -> inx(s)
    [] name = "iny" -> iny(s)
    [] name = "dex" -> dex(s)
    [] name = "dey" -> dey(s)
    [] name = "jmpAbsolute" -> jmpAbsolute(s)
    [] name = "nop" -> nop(s)
    [] name = "ldxImmediate" -> ldxImmediate(s)
    [] name = "ldyImmediate" -> ldyImmediate(s)
    [] name = "staZeroPage" -> staZeroPage(s)
    [] name = "stxZeroPage" -> stxZeroPage(s)
    [] name = "styZeroPage" -> styZeroPage(s)
    [] name = "adcImmediate" -> adcImmediate(s)
    [] name = "sbcImmediate" -> sbcImmediate(s)
    [] name = "andImmediate" -> andImmediate(s)
    [] name = "oraImmediate" -> oraImmediate(s)
    [] name = "eorImmediate" -> eorImmediate(s)
    [] name = "clc" -> clc(s)
    [] name = "cmpImmediate" -> cmpImmediate(s)
    [] name = "bne" -> bne(s)
    [] name = "beq" -> beq(s)
    [] name = "incZeroPage" -> incZeroPage(s)
    [] name = "decZeroPage" -> decZeroPage(s)
    [] name = "aslAccumulator" -> aslAccumulator(s)
    [] name = "lsrAccumulator" -> lsrAccumulator(s)
    [] name = "rolAccumulator" -> rolAccumulator(s)
    [] name = "rorAccumulator" -> rorAccumulator(s)
    [] name = "txa" -> txa(s)
    [] name = "tya" -> tya(s)
    [] name = "tax" -> tax(s)
    [] name = "tay" -> tay(s)
    [] name = "ldaZeroPage" -> ldaZeroPage(s)
    [] name = "ldaAbsolute" -> ldaAbsolute(s)
    [] name = "ldaZeroPageX" -> ldaZeroPageX(s)
    [] name = "staAbsoluteX" -> staAbsoluteX(s)
    [] name = "aslZeroPage" -> aslZeroPage(s)
    [] name = "lsrZeroPage" -> lsrZeroPage(s)
    [] name = "txs" -> txs(s)
    [] name = "rts" -> rts(s)
    [] name = "pha" -> pha(s)
    [] name = "pla" -> pla(s)
    [] name = "php" -> php(s)
    [] name = "plp" -> plp(s)
    [] name = "bitZeroPage" -> bitZeroPage(s)
    [] name = "sec" -> sec(s)
    [] name = "sed" -> sed(s)
    [] name = "cld" -> cld(s)
    [] name = "sei" -> sei(s)
    [] name = "cli" -> cli(s)
    [] name = "clv" -> clv(s)
    [] name = "bpl" -> bpl(s)
    [] name = "jsr" -> jsr(s)
    [] name = "ldxZeroPage" -> ldxZeroPage(s)
    [] name = "ldxAbsolute" -> ldxAbsolute(s)
    [] name = "ldyZeroPage" -> ldyZeroPage(s)
    [] name = "ldyAbsolute" -> ldyAbsolute(s)
    [] name = "adcZeroPage" -> adcZeroPage(s)
    [] name = "adcAbsolute" -> adcAbsolute(s)
    [] name = "sbcZeroPage" -> sbcZeroPage(s)
    [] name = "sbcAbsolute" -> sbcAbsolute(s)

-----------------------------------------------------------------------------
(* CPU step *)

ExecutedLine(opcode, s) ==
  [kind |-> "executed",
   opcode |-> padStart(toString16(opcode), 2, "0"),
   pc |-> toString16(s.registers.PC - 1)]

UnknownLine(opcode, s) ==
  [kind |-> "unknown",
   opcode |-> padStart(toString16(opcode), 2, "0"),
   pc |-> toString16(s.registers.PC - 1)]

\* step counting only the opcodes it knows
stepCountsMapped(s) ==
  LET f == fetchByte(s)
      opcode == f.val
  IN  IF opcode \in DOMAIN instructionTable
      THEN LET t == Call(instructionTable[opcode], [f.st EXCEPT !.cycle = @ + 1])
           IN  [t EXCEPT !.console = Append(@, ExecutedLine(opcode, t))]
      ELSE [f.st EXCEPT !.console = Append(@, UnknownLine(opcode, f.st)),
                        !.running = FALSE]

step(s) ==
  LET c == [s EXCEPT !.cycle = @ + 1]
      f == fetchByte(c)
      opcode == f.val
  IN  IF opcode \in DOMAIN instructionTable
      THEN LET t == Call(instructionTable[opcode], f.st)
           IN  [t EXCEPT !.console = Append(@, ExecutedLine(opcode, t))]
      ELSE [f.st EXCEPT !.console = Append(@, UnknownLine(opcode, f.st)),
                        !.running = FALSE]

-----------------------------------------------------------------------------
(* The state of the module, as the record the handlers work on *)

CpuState ==
  [registers |-> registers, flags |-> flags, memory |-> memory,
   running |-> running, cycle |-> cycle, console |-> console,
   ppu |-> ppu, busWrites |-> busWrites]

Install(t) ==
  /\ registers' = t.registers
  /\ flags' = t.flags
  /\ memory' = t.memory
  /\ running' = t.running
  /\ cycle' = t.cycle
  /\ console' = t.console
  /\ ppu' = t.ppu
  /\ busWrites' = t.busWrites

\* the module's top-level declarations, and the harness's `let running = true`
Constructed ==
  [registers |-> [A |-> 0, X |-> 0, Y |-> 0, SP |-> 253, PC |-> 32768, P |-> 36],
   flags |-> [N |-> 0, V |-> 0, B |-> 0, D |-> 0, I |-> 1, Z |-> 0, C |-> 0],
   memory |-> EmptyMemory,
   running |-> TRUE,
   cycle |-> 0,
   console |-> <<>>,
   ppu |-> <<>>,
   busWrites |-> <<>>]

-----------------------------------------------------------------------------
(* The loader of the harness: memory[0x8000 + i] = testProgram[i], then the *)
(* reset vector.  A test program is given by its first bytes (head) and, for *)
(* a program that fills the 32KB up to 0xFFFF, its last bytes (tail); the    *)
(* bytes between are zero.                                                   *)

RECURSIVE StoreBytes(_, _, _)
StoreBytes(m, at, bytes) ==
  IF bytes = <<>> THEN m
  ELSE StoreBytes(MemPut(m, at, Head(bytes)), at + 1, Tail(bytes))

LoadProgram(head, tail) ==
  LET m1 == StoreBytes(EmptyMemory, LOAD_ADDRESS, head)
      m2 == StoreBytes(m1, MEMORY_SIZE - Len(tail), tail)
      m3 == MemPut(m2, RESET_VECTOR, 0)
  IN  MemPut(m3, RESET_VECTOR + 1, 128)

Loaded(head, tail) == [Constructed EXCEPT !.memory = LoadProgram(head, tail)]

NoFetch == [addr |-> 0 - 1, opcode |-> 0 - 1]

StartsWith(s, loaded) ==
  /\ registers = s.registers
  /\ flags = s.flags
  /\ memory = s.memory
  /\ running = s.running
  /\ cycle = s.cycle
  /\ console = s.console
  /\ ppu = s.ppu
  /\ busWrites = s.busWrites
  /\ fetched = NoFetch
  /\ image = loaded

StartLoaded(head, tail) ==
  StartsWith(Loaded(head, tail), LoadProgram(head, tail))

-----------------------------------------------------------------------------
(* The programs the run loop is followed on: up to two instructions that    *)
(* set registers and flags, then any opcode byte, mapped or not, with two   *)
(* operand bytes; everything after them is zero (BRK).                      *)

Setups ==
  { <<>>,
    <<\hA9, \h80>>,   \* LDA #$80
    <<\hA2, \hFF>>,   \* LDX #$FF
    <<\h38>>,         \* SEC
    <<\hA0, \h01>> }  \* LDY #$01

OperandPairs ==
  { <<\h00, \h20>>,   \* $2000: PPUCTRL; zero page $00; offset +0
    <<\h02, \h20>>,   \* $2002: a register the sink does not handle
    <<\hFE, \h1F>>,   \* $1FFE: below the window, inside it when indexed by X
    <<\hFF, \hFF>> }  \* $FFFF: the last byte of memory; offset -1

Tails == { <<>>, <<\hFF>>, <<\hEA>> }

Heads ==
  { s1 \o s2 \o <<op>> \o ops :
      s1 \in Setups, s2 \in Setups, op \in Byte, ops \in OperandPairs }

ShortHeads == { <<op>> \o ops : op \in Byte, ops \in OperandPairs }

Init ==
  /\ \/ \E head \in Heads : StartLoaded(head, <<>>)
     \/ \E head \in ShortHeads, tail \in Tails : StartLoaded(head, tail)
  /\ phase = "loaded"
  /\ lastOp = "load"

-----------------------------------------------------------------------------
(* The harness: reset(); while (running) step(); *)

Reset ==
  /\ phase = "loaded"
  /\ Install(reset(CpuState))
  /\ phase' = "run"
  /\ lastOp' = "reset"
  /\ UNCHANGED <<fetched, image>>

\* the loop not testing running
StepIgnoresRunning ==
  /\ phase = "run"
  /\ cycle < MaxSteps
  /\ Install(step(CpuState))
  /\ fetched' = [addr |-> registers.PC, opcode |-> MemAt(memory, registers.PC)]
  /\ lastOp' = "step"
  /\ UNCHANGED <<image, phase>>

Step ==
  /\ phase = "run"
  /\ running
  /\ cycle < MaxSteps
  /\ Install(step(CpuState))
  /\ fetched' = [addr |-> registers.PC, opcode |-> MemAt(memory, registers.PC)]
  /\ lastOp' = "step"
  /\ UNCHANGED <<image, phase>>

\* the lines the harness prints after the loop; `status` is no variable of the
\* file: in the browser it is window.status, the empty string
ResultLines(s) ==
  << [kind |-> "result", label |-> "A", text |-> toString10(s.registers.A)],
     [kind |-> "result", label |-> "X", text |-> toString10(s.registers.X)],
     [kind |-> "result", label |-> "Y", text |-> toString10(s.registers.Y)],
     [kind |-> "result", label |-> "SP", text |-> toString10(s.registers.SP)],
     [kind |-> "result", label |-> "Status", text |-> padStart(<<>>, 8, "0")],
     [kind |-> "result", label |-> "Memory[0x0200]",
      text |-> toString10(MemAt(s.memory, 512))],
     [kind |-> "result", label |-> "Total cycles", text |-> toString10(s.cycle)],
     [kind |-> "complete"] >>

Finish ==
  /\ phase = "run"
  /\ ~running
  /\ console' = console \o ResultLines(CpuState)
  /\ phase' = "done"
  /\ lastOp' = "finish"
  /\ UNCHANGED <<registers, flags, memory, running, cycle, ppu, busWrites,
                 fetched, image>>

Next == Reset \/ Step \/ Finish

Spec == Init /\ [][Next]_vars

-----------------------------------------------------------------------------
(* The end-to-end program of the test harness: LDA #v; STA $0200; BRK *)

EndToEnd(v) == <<\hA9, v, \h8D, \h00, \h02, \h00>>

InitE2E ==
  /\ \E v \in Byte : StartLoaded(EndToEnd(v), <<>>)
  /\ phase = "loaded"
  /\ lastOp = "load"

\* The harness is straight-line code around a loop, run to completion by one
\* thread: whatever it can do next, it does.  That is WF_vars(Next), written
\* here by its definition, []<>~ENABLED <<Next>>_vars \/ []<><<Next>>_vars,
\* with the enabling condition spelled out: every disjunct of Next changes
\* phase or cycle, so <<Next>>_vars is enabled exactly when a guard holds.
CanAdvance ==
  \/ phase = "loaded"
  \/ phase = "run" /\ running /\ cycle < MaxSteps
  \/ phase = "run" /\ ~running

CanAdvanceIsEnabled == CanAdvance <=> ENABLED <<Next>>_vars

WeakFairness == []<>(~CanAdvance) \/ []<><<Next>>_vars

SpecE2E == InitE2E /\ [][Next]_vars /\ WeakFairness

-----------------------------------------------------------------------------
(* reset() as a function a caller may invoke at any time during a run *)

ResetAny ==
  /\ phase \in {"loaded", "run"}
  /\ Install(reset(CpuState))
  /\ phase' = "run"
  /\ lastOp' = "reset"
  /\ UNCHANGED <<fetched, image>>

NextReset == ResetAny \/ Step \/ Finish

InitReset ==
  /\ \E head \in ShortHeads : StartLoaded(head, <<>>)
  /\ phase = "loaded"
  /\ lastOp = "load"

SpecReset == InitReset /\ [][NextReset]_vars

-----------------------------------------------------------------------------
(* Vocabulary of the properties *)

Mapped(opcode) == opcode \in DOMAIN instructionTable

\* the transition is a call of step()
IsStep == lastOp' = "step" /\ cycle' = cycle + 1

\* the opcode byte the next step() fetches
NextOpcode == MemAt(memory, registers.PC)

LastLine(lines) == lines[Len(lines)]

Kinds(lines) == { lines[i].kind : i \in DOMAIN lines }

InWindow(a) == a >= 8192 /\ a <= 16383

Signed8(b) == IF b < 128 THEN b ELSE b - 256

-----------------------------------------------------------------------------
(* C1: for every byte v, the run of LDA #v; STA $0200; BRK loaded at 0x8000  *)
(* eventually leaves the loop with running false, memory[0x0200] = v, A = v, *)
(* and the step that halted it is the BRK step, not the unknown-opcode one.  *)

E2EValue == MemAt(image, LOAD_ADDRESS + 1)

C1_EndToEndHaltsByBrk ==
  <>( /\ phase = "done"
      /\ running = FALSE
      /\ MemAt(memory, 512) = E2EValue
      /\ registers.A = E2EValue
      /\ fetched = [addr |-> LOAD_ADDRESS + 5, opcode |-> 0]
      /\ "brk" \in Kinds(console)
      /\ "unknown" \notin Kinds(console) )

C1_Witness ==
  /\ phase = "done"
  /\ E2EValue = 16
  /\ MemAt(memory, 512) = 16
  /\ registers.A = 16
  /\ fetched.opcode = 0

-----------------------------------------------------------------------------
(* C2: whenever step() fetches a byte with no table entry, the run is halted *)
(* and the PC reported with the fault is the address the byte was fetched    *)
(* from, for every fetch address 0..0xFFFF; A, X and Y keep their values.    *)

C2_UnknownOpcodeReportsFetchAddress ==
  [][ (IsStep /\ ~Mapped(NextOpcode)) =>
        /\ running' = FALSE
        /\ LastLine(console').kind = "unknown"
        /\ LastLine(console').pc = toString16(registers.PC)
        /\ registers'.A = registers.A
        /\ registers'.X = registers.X
        /\ registers'.Y = registers.Y ]_vars

-----------------------------------------------------------------------------
(* C3: in the run loop, running goes from true to false only in a step whose *)
(* opcode is BRK or has no table entry; a step of any other mapped opcode    *)
(* leaves it true; once it is false there is no further step, and registers, *)
(* flags, memory and the instruction counter never change again.             *)

C3_HaltOnlyByBrkOrUnknown ==
  [][ /\ (running /\ ~running') =>
           (IsStep /\ (NextOpcode = 0 \/ ~Mapped(NextOpcode)))
      /\ (IsStep /\ Mapped(NextOpcode) /\ NextOpcode # 0) => running'
      /\ ~running =>
           /\ ~IsStep
           /\ ~running'
           /\ UNCHANGED <<registers, flags, memory, cycle>> ]_vars

C3_Witness ==
  /\ phase = "done"
  /\ ~running
  /\ cycle >= 3
  /\ fetched.opcode = 0

-----------------------------------------------------------------------------
(* C4: a halted run reports its cause distinctly: halted by BRK, the console *)
(* holds the BRK line and no unknown-opcode line; halted by an unmapped      *)
(* opcode, it holds the unknown-opcode line and no BRK line.                 *)

C4_HaltCauseDistinct ==
  ~running =>
    /\ fetched.opcode = 0 =>
         ("brk" \in Kinds(console) /\ "unknown" \notin Kinds(console))
    /\ ~Mapped(fetched.opcode) =>
         ("unknown" \in Kinds(console) /\ "brk" \notin Kinds(console))
    /\ (fetched.opcode = 0 \/ ~Mapped(fetched.opcode))

C4_Witness ==
  /\ ~running
  /\ cycle >= 2
  /\ fetched.opcode = 255
  /\ LastLine(console).kind = "unknown"

-----------------------------------------------------------------------------
(* C5: reset() called in any reachable state, also after instructions have   *)
(* changed the flags, leaves SP = 0xFD, packFlags() = 0x24 and PC equal to   *)
(* memory[0xFFFC] + 256 * memory[0xFFFD].                                    *)

C5_ResetRestoresStatus ==
  lastOp = "reset" =>
    /\ registers.SP = 253
    /\ packFlags(CpuState) = 36
    /\ registers.PC = MemAt(memory, 65532) + 256 * MemAt(memory, 65533)

-----------------------------------------------------------------------------
(* C6: after any steps, every byte at 0x2000..0x3FFF is as the loader left   *)
(* it: a bus write into the window stores nothing, and a write to any other  *)
(* address stores val & 0xFF at addr & 0xFFFF.                               *)

RECURSIVE ApplyWrites(_, _)
ApplyWrites(m, writes) ==
  IF writes = <<>> THEN m
  ELSE LET w == Head(writes)
           a == w.addr % 65536
       IN  ApplyWrites(IF InWindow(a) THEN m
                       ELSE [x \in 0..65535 |->
                               IF x = a THEN w.val % 256 ELSE m[x]],
                       Tail(writes))

C6_WindowNeverStored ==
  /\ \A a \in DOMAIN memory \cup DOMAIN image :
       InWindow(a) => MemAt(memory, a) = MemAt(image, a)
  /\ \A a \in DOMAIN memory \cup DOMAIN image \cup
              { busWrites[i].addr % 65536 : i \in DOMAIN busWrites } :
       MemAt(memory, a) =
         ApplyWrites([x \in 0..65535 |-> MemAt(image, x)], busWrites)[a]

C6_Witness ==
  \E i \in DOMAIN busWrites :
    /\ InWindow(busWrites[i].addr)
    /\ busWrites[i].val = 128
    /\ MemAt(memory, busWrites[i].addr) = 0

-----------------------------------------------------------------------------
(* C7: the PPU sink is called exactly once for each bus write whose masked   *)
(* address lies in 0x2000..0x3FFF, in order, and never for another write;    *)
(* each call gets the address 0x2000 + (addr mod 8), which lies in           *)
(* 0x2000..0x2007, and a value in 0..255.                                    *)

RECURSIVE SinkCalls(_)
SinkCalls(writes) ==
  IF writes = <<>> THEN <<>>
  ELSE LET w == Head(writes)
           a == w.addr % 65536
       IN  (IF InWindow(a)
            THEN << [addr |-> 8192 + (a % 8), value |-> w.val] >>
            ELSE <<>>) \o SinkCalls(Tail(writes))

C7_SinkCalledOncePerWindowWrite ==
  /\ ppu = SinkCalls(busWrites)
  /\ \A i \in DOMAIN ppu :
       /\ ppu[i].addr \in 8192..8199
       /\ ppu[i].value \in Byte

C7_Witness ==
  /\ busWrites = << [addr |-> 8445, val |-> 128] >>
  /\ ppu = << [addr |-> 8197, value |-> 128] >>

-----------------------------------------------------------------------------
(* C8: in every state reached from reset() by steps, A, X, Y and SP are in   *)
(* 0..255, PC is in 0..65535, each flag is 0 or 1 and every memory byte is   *)
(* in 0..255.                                                                *)

C8_WidthsKept ==
  /\ registers.A \in Byte
  /\ registers.X \in Byte
  /\ registers.Y \in Byte
  /\ registers.SP \in Byte
  /\ registers.PC \in Word
  /\ \A f \in {"N", "V", "B", "D", "I", "Z", "C"} : flags[f] \in Bit
  /\ \A a \in DOMAIN memory : a \in Word /\ memory[a] \in Byte

\* LDX #$FF; INX has wrapped X to 0
C8_Witness ==
  /\ lastOp = "step"
  /\ fetched.opcode = 232
  /\ cycle = 2
  /\ registers.X = 0
  /\ flags.Z = 1

-----------------------------------------------------------------------------
(* One instruction on drawn operands: the state is the one a short preamble *)
(* of the program itself leaves (it loads the operand, sets or clears the   *)
(* carry and loads A), and step() is applied to it once.                    *)

RECURSIVE Steps(_, _)
Steps(s, n) == IF n = 0 THEN s ELSE Steps(step(s), n - 1)

Drawn(head, preamble) ==
  /\ StartsWith(Steps(reset(Loaded(head, <<>>)), preamble),
                LoadProgram(head, <<>>))
  /\ phase = "run"
  /\ lastOp = "drawn"

StepOnce ==
  /\ lastOp = "drawn"
  /\ running
  /\ Install(step(CpuState))
  /\ fetched' = [addr |-> registers.PC, opcode |-> MemAt(memory, registers.PC)]
  /\ lastOp' = "step"
  /\ UNCHANGED <<image, phase>>

CarryOp(c) == IF c = 1 THEN \h38 ELSE \h18

\* ADC #m; ADC $10 with m stored there; ADC $8007 with m loaded there
AdcImmediateHead(a, m, c) == <<CarryOp(c), \hA9, a, \h69, m>>
AdcZeroPageHead(a, m, c) ==
  <<\hA9, m, \h85, \h10, CarryOp(c), \hA9, a, \h65, \h10>>
AdcAbsoluteHead(a, m, c) ==
  <<CarryOp(c), \hA9, a, \h6D, \h07, \h80, \h00, m>>

InitADC ==
  \E a \in Byte, m \in Byte, c \in Bit :
    \/ Drawn(AdcImmediateHead(a, m, c), 2)
    \/ Drawn(AdcZeroPageHead(a, m, c), 4)
    \/ Drawn(AdcAbsoluteHead(a, m, c), 2)

SpecADC == InitADC /\ [][StepOnce]_vars

-----------------------------------------------------------------------------
(* C10: for every A, operand m and carry C, ADC in its immediate, zero-page  *)
(* and absolute forms leaves A = (A + m + C) mod 256, C = 1 iff A + m + C >  *)
(* 255, V = 1 iff the sum of A and m as signed bytes plus C is outside       *)
(* -128..127, and Z and N from the new A.                                    *)

\* the operand the ADC at PC is about to read
AdcOperand ==
  LET b1 == MemAt(memory, (registers.PC + 1) % 65536)
      b2 == MemAt(memory, (registers.PC + 2) % 65536)
  IN  CASE NextOpcode = 105 -> b1
        [] NextOpcode = 101 -> MemAt(memory, b1)
        [] NextOpcode = 109 -> MemAt(memory, b1 + 256 * b2)

C10_AdcArithmetic ==
  [][ (IsStep /\ NextOpcode \in {105, 101, 109}) =>
        LET a == registers.A
            m == AdcOperand
            sum == a + m + flags.C
            signed == Signed8(a) + Signed8(m) + flags.C
        IN  /\ registers'.A = sum % 256
            /\ flags'.C = (IF sum > 255 THEN 1 ELSE 0)
            /\ flags'.V = (IF signed < 0 - 128 \/ signed > 127 THEN 1 ELSE 0)
            /\ flags'.Z = (IF sum % 256 = 0 THEN 1 ELSE 0)
            /\ flags'.N = (IF sum % 256 >= 128 THEN 1 ELSE 0) ]_vars

\* A = 0x7F, C = 0, ADC #$01 has given A = 0x80, V = 1, N = 1, C = 0, Z = 0
C10_Witness ==
  /\ lastOp = "step"
  /\ fetched.opcode = 105
  /\ MemAt(image, LOAD_ADDRESS) = 24
  /\ MemAt(image, LOAD_ADDRESS + 2) = 127
  /\ MemAt(image, LOAD_ADDRESS + 4) = 1
  /\ registers.A = 128
  /\ flags.V = 1 /\ flags.N = 1 /\ flags.C = 0 /\ flags.Z = 0

-----------------------------------------------------------------------------
(* SBC on drawn operands, in the three forms the table holds: 0xE9 with the *)
(* operand in the program, 0x61 with it in the zero page, 0x6E with it at   *)
(* an absolute address.                                                     *)

SbcImmediateHead(a, m, c) == <<CarryOp(c), \hA9, a, \hE9, m>>
SbcZeroPageHead(a, m, c) ==
  <<\hA9, m, \h85, \h10, CarryOp(c), \hA9, a, \h61, \h10>>
SbcAbsoluteHead(a, m, c) ==
  <<CarryOp(c), \hA9, a, \h6E, \h07, \h80, \h00, m>>

InitSBC ==
  \E a \in Byte, m \in Byte, c \in Bit :
    \/ Drawn(SbcImmediateHead(a, m, c), 2)
    \/ Drawn(SbcZeroPageHead(a, m, c), 4)
    \/ Drawn(SbcAbsoluteHead(a, m, c), 2)

SpecSBC == InitSBC /\ [][StepOnce]_vars

-----------------------------------------------------------------------------
(* C11: for every A, operand m and carry C, SBC in its immediate, zero-page  *)
(* and absolute forms leaves A = (A - m - (1 - C)) mod 256, C = 1 iff        *)
(* A - m - (1 - C) >= 0, V = 1 iff the difference of A and m as signed bytes *)
(* minus (1 - C) is outside -128..127, and Z and N from the new A.           *)

\* the operand the SBC at PC is about to read
SbcOperand ==
  LET b1 == MemAt(memory, (registers.PC + 1) % 65536)
      b2 == MemAt(memory, (registers.PC + 2) % 65536)
  IN  CASE NextOpcode = 233 -> b1
        [] NextOpcode = 97 -> MemAt(memory, b1)
        [] NextOpcode = 110 -> MemAt(memory, b1 + 256 * b2)

C11_SbcArithmetic ==
  [][ (IsStep /\ NextOpcode \in {233, 97, 110}) =>
        LET a == registers.A
            m == SbcOperand
            diff == a - m - (1 - flags.C)
            signed == Signed8(a) - Signed8(m) - (1 - flags.C)
        IN  /\ registers'.A = diff % 256
            /\ flags'.C = (IF diff >= 0 THEN 1 ELSE 0)
            /\ flags'.V = (IF signed < 0 - 128 \/ signed > 127 THEN 1 ELSE 0)
            /\ flags'.Z = (IF diff % 256 = 0 THEN 1 ELSE 0)
            /\ flags'.N = (IF diff % 256 >= 128 THEN 1 ELSE 0) ]_vars

\* A = 0x00, C = 1, SBC #$01 has given A = 0xFF, C = 0, N = 1, Z = 0
C11_Witness ==
  /\ lastOp = "step"
  /\ fetched.opcode = 233
  /\ MemAt(image, LOAD_ADDRESS) = 56
  /\ MemAt(image, LOAD_ADDRESS + 2) = 0
  /\ MemAt(image, LOAD_ADDRESS + 4) = 1
  /\ registers.A = 255
  /\ flags.C = 0 /\ flags.N = 1 /\ flags.Z = 0 /\ flags.V = 0

-----------------------------------------------------------------------------
(* Every handler that ends in updateZeroNegativeFlags, on drawn values: the *)
(* preamble stores b at $10, loads it into X and Y, pushes it, sets or      *)
(* clears the carry and loads a into A; the instruction then takes its      *)
(* operand from the program (b), from $10 or from $8001 (which holds b).    *)

ToA ==
  {"ldaImmediate", "ldaZeroPage", "ldaAbsolute", "ldaZeroPageX",
   "adcImmediate", "adcZeroPage", "adcAbsolute",
   "sbcImmediate", "sbcZeroPage", "sbcAbsolute",
   "andImmediate", "oraImmediate", "eorImmediate",
   "aslAccumulator", "lsrAccumulator", "rolAccumulator", "rorAccumulator",
   "txa", "tya", "pla"}
ToX == {"ldxImmediate", "ldxZeroPage", "ldxAbsolute", "inx", "dex", "tax"}
ToY == {"ldyImmediate", "ldyZeroPage", "ldyAbsolute", "iny", "dey", "tay"}
ToMemory == {"incZeroPage", "decZeroPage", "aslZeroPage", "lsrZeroPage"}

ZeroNegativeHandlers == ToA \cup ToX \cup ToY \cup ToMemory

ZeroNegativeOpcodes ==
  { op \in DOMAIN instructionTable : instructionTable[op] \in ZeroNegativeHandlers }

ImmediateForms ==
  {"ldaImmediate", "ldxImmediate", "ldyImmediate", "adcImmediate",
   "sbcImmediate", "andImmediate", "oraImmediate", "eorImmediate"}
AbsoluteForms ==
  {"ldaAbsolute", "ldxAbsolute", "ldyAbsolute", "adcAbsolute", "sbcAbsolute"}

OperandFor(name, b) ==
  IF name \in ImmediateForms THEN <<b>>
  ELSE IF name \in AbsoluteForms THEN <<\h01, \h80>>
  ELSE <<\h10>>

ZeroNegativeHead(a, b, c, op) ==
  <<\hA9, b, \h85, \h10, \hA2, b, \hA0, b, \h48, CarryOp(c), \hA9, a, op>>
    \o OperandFor(instructionTable[op], b)

Corners == {\h00, \h01, \h7F, \h80, \hFF}

InitZN ==
  \E a \in Byte, b \in Byte, c \in Bit, op \in ZeroNegativeOpcodes :
    /\ a \in Corners \/ b \in Corners
    /\ Drawn(ZeroNegativeHead(a, b, c, op), 7)

SpecZN == InitZN /\ [][StepOnce]_vars

-----------------------------------------------------------------------------
(* C12: right after an instruction that writes its result through the zero/ *)
(* negative update (loads, increments and decrements, transfers, AND/ORA/   *)
(* EOR, ADC/SBC, shifts and rotates, INC/DEC, PLA), Z = 1 iff the byte it   *)
(* wrote is 0 and N is bit 7 of that byte.                                  *)

\* the byte the handler wrote, read where it wrote it: in A, X, Y, or at the
\* zero-page address zp
Written(name, rg, m, zp) ==
  CASE name \in ToA -> rg.A
    [] name \in ToX -> rg.X
    [] name \in ToY -> rg.Y
    [] name \in ToMemory -> MemAt(m, zp)

C12_ZeroNegativeFollowResult ==
  [][ (IsStep /\ NextOpcode \in ZeroNegativeOpcodes) =>
        LET r == Written(instructionTable[NextOpcode], registers', memory',
                         MemAt(memory, (registers.PC + 1) % 65536))
        IN  /\ r \in Byte
            /\ flags'.Z = (IF r = 0 THEN 1 ELSE 0)
            /\ flags'.N = (r \div 128) ]_vars

\* DEC $10 on the byte 0x00 has written 0xFF: N = 1, Z = 0
C12_Witness ==
  /\ lastOp = "step"
  /\ fetched.opcode = 198
  /\ MemAt(image, LOAD_ADDRESS + 1) = 0
  /\ MemAt(memory, 16) = 255
  /\ flags.N = 1 /\ flags.Z = 0

-----------------------------------------------------------------------------
(* packFlags() and unpackFlags(p) applied to the flags themselves.  Every   *)
(* combination of the seven flags is one a program can produce: LDA #p;     *)
(* PHA; PLP leaves the flags that p encodes.                                *)

FlagsHead(p) == <<\hA9, p, \h48, \h28>>

InitFlags == \E p \in Byte : Drawn(FlagsHead(p), 3)

\* unpackFlags(packFlags())
RoundTrip ==
  /\ lastOp = "drawn"
  /\ Install(unpackFlags(CpuState, packFlags(CpuState)))
  /\ lastOp' = "roundtrip"
  /\ UNCHANGED <<fetched, image, phase>>

SpecFlags == InitFlags /\ [][RoundTrip]_vars

-----------------------------------------------------------------------------
(* C13: for every combination of N, V, B, D, I, Z, C, unpackFlags(packFlags()) *)
(* leaves the seven flags as they were, and the byte packFlags() returns has   *)
(* bit 5 set.                                                                  *)

C13_PackUnpackRoundTrip ==
  /\ [](And(packFlags(CpuState), 32) = 32 /\ packFlags(CpuState) \in Byte)
  /\ [][ lastOp' = "roundtrip" => flags' = flags ]_vars

\* the round trip on N = 1, V = 0, B = 1, D = 0, I = 0, Z = 1, C = 1
C13_Witness ==
  /\ lastOp = "roundtrip"
  /\ flags = [N |-> 1, V |-> 0, B |-> 1, D |-> 0, I |-> 0, Z |-> 1, C |-> 1]
  /\ packFlags(CpuState) = 179

-----------------------------------------------------------------------------
(* The three branches on drawn offsets.  LDA #f sets Z and N; the branch    *)
(* sits in the program, at 0xFFFE or 0xFFFF (the last bytes of a 32KB       *)
(* program, reached by a JMP, with its offset byte at 0xFFFF or, stored     *)
(* there by the program, at 0x0000), or at 0x0000 (stored there by the      *)
(* program), so that PC + 2 and PC + 2 + offset wrap at both ends.          *)

DrawnWithTail(head, tail, preamble) ==
  /\ StartsWith(Steps(reset(Loaded(head, tail)), preamble),
                LoadProgram(head, tail))
  /\ phase = "run"
  /\ lastOp = "drawn"

BranchOpcodes == {\hD0, \hF0, \h10}

\* f = 0x00: Z = 1, N = 0; f = 0x01: Z = 0, N = 0; f = 0x80: Z = 0, N = 1
FlagSetters == {\h00, \h01, \h80}

InitBranch ==
  \E f \in FlagSetters, op \in BranchOpcodes, b \in Byte :
    \/ Drawn(<<\hA9, f, op, b>>, 1)
    \/ DrawnWithTail(<<\hA9, f, \h4C, \hFE, \hFF>>, <<op, b>>, 2)
    \/ DrawnWithTail(<<\hA9, b, \h85, \h00, \hA9, f, \h4C, \hFF, \hFF>>,
                     <<op>>, 4)
    \/ Drawn(<<\hA9, op, \h85, \h00, \hA9, b, \h85, \h01,
               \hA9, f, \h4C, \h00, \h00>>, 6)

SpecBranch == InitBranch /\ [][StepOnce]_vars

\* the condition of the branch at PC
BranchTaken ==
  CASE NextOpcode = \hD0 -> flags.Z = 0
    [] NextOpcode = \hF0 -> flags.Z = 1
    [] NextOpcode = \h10 -> flags.N = 0

\* the offset byte of the branch at PC
BranchOffset == MemAt(memory, (registers.PC + 1) % 65536)

-----------------------------------------------------------------------------
(* C14: BNE, BEQ or BPL fetched at p with its condition false leaves        *)
(* PC = (p + 2) mod 65536 whatever the offset byte, and changes no other    *)
(* register, no flag and no memory byte.                                    *)

C14_BranchNotTaken ==
  [][ (IsStep /\ NextOpcode \in BranchOpcodes /\ ~BranchTaken) =>
        /\ registers' = [registers EXCEPT !.PC = (registers.PC + 2) % 65536]
        /\ flags' = flags
        /\ memory' = memory ]_vars

\* BEQ with Z = 0 at 0xFFFF, offset 0x80 at 0x0000: PC = 1
C14_Witness ==
  /\ lastOp = "step"
  /\ fetched = [addr |-> 65535, opcode |-> 240]
  /\ flags.Z = 0
  /\ MemAt(memory, 0) = 128
  /\ registers.PC = 1

-----------------------------------------------------------------------------
(* C19: BNE, BEQ or BPL fetched at p with its condition true and offset     *)
(* byte b leaves PC = (p + 2 + s) mod 65536, s being b for b < 0x80 and     *)
(* b - 256 otherwise, the same s for the three of them.                     *)

C19_BranchTaken ==
  [][ (IsStep /\ NextOpcode \in BranchOpcodes /\ BranchTaken) =>
        /\ registers'.PC =
             (registers.PC + 2 + Signed8(BranchOffset)) % 65536
        /\ registers'.PC \in Word ]_vars

\* BPL with N = 0 at 0x0000, offset 0x80: PC = 2 - 128 mod 65536
C19_Witness ==
  /\ lastOp = "step"
  /\ fetched = [addr |-> 0, opcode |-> 16]
  /\ flags.N = 0
  /\ MemAt(memory, 1) = 128
  /\ registers.PC = 65410

-----------------------------------------------------------------------------
(* A drawn program run on: step() while running, as the loop does.          *)

Run ==
  /\ phase = "run"
  /\ running
  /\ cycle < MaxRun
  /\ Install(step(CpuState))
  /\ fetched' = [addr |-> registers.PC, opcode |-> MemAt(memory, registers.PC)]
  /\ lastOp' = "step"
  /\ UNCHANGED <<image, phase>>

-----------------------------------------------------------------------------
(* PHA then PLA for every A and SP: LDX #sp; TXS; LDA #a; PHA; PLA          *)

StackHead(a, sp) == <<\hA2, sp, \h9A, \hA9, a, \h48, \h68>>

InitStack == \E a \in Byte, sp \in Byte : Drawn(StackHead(a, sp), 3)

SpecStack == InitStack /\ [][Run]_vars

-----------------------------------------------------------------------------
(* C15: for every A and every SP, also SP = 0x00 where the push wraps SP to *)
(* 0xFF, PHA immediately followed by PLA leaves A and SP as they were       *)
(* before the PHA.                                                          *)

C15_PhaPlaRestores ==
  LET sp == MemAt(image, LOAD_ADDRESS + 1)
      a == MemAt(image, LOAD_ADDRESS + 4)
  IN  /\ cycle = 3 =>
           /\ NextOpcode = \h48
           /\ registers.A = a
           /\ registers.SP = sp
      /\ cycle = 4 =>
           /\ fetched.opcode = \h48
           /\ NextOpcode = \h68
           /\ registers.SP = (sp - 1) % 256
      /\ cycle = 5 =>
           /\ fetched.opcode = \h68
           /\ registers.A = a
           /\ registers.SP = sp

\* A = 0x80 and SP = 0x00: pushed at 0x0100, SP wrapped to 0xFF and back
C15_Witness ==
  /\ cycle = 5
  /\ fetched.opcode = \h68
  /\ MemAt(image, LOAD_ADDRESS + 1) = 0
  /\ MemAt(memory, 256) = 128
  /\ registers.A = 128
  /\ registers.SP = 0

-----------------------------------------------------------------------------
(* JSR and RTS for every SP, with the JSR at call sites up to the top of    *)
(* memory.  The program sets SP, stores an RTS at the target t and the JSR  *)
(* with its operand at p, p + 1, p + 2 (mod 65536), and jumps to p.         *)

\* LDA #val; STA addr
Poke(addr, val) == <<\hA9, val, \h8D, addr % 256, addr \div 256>>

CallHead(sp, p, t) ==
  <<\hA2, sp, \h9A>>
    \o Poke(t, \h60)
    \o Poke(p, \h20)
    \o Poke((p + 1) % 65536, t % 256)
    \o Poke((p + 2) % 65536, t \div 256)
    \o <<\h4C, p % 256, p \div 256>>

\* in plain memory, in the stack page, and where p + 1, p + 2, p + 3 wrap
CallSites == {\h0200, \h01FE, \hFFFD, \hFFFE, \hFFFF}

Targets == {\h0040, \h0300}

InitCall ==
  /\ \E sp \in Byte, p \in CallSites, t \in Targets :
       StartLoaded(CallHead(sp, p, t), <<>>)
  /\ phase = "loaded"
  /\ lastOp = "load"

NextCall == Reset \/ Run

SpecCall == InitCall /\ [][NextCall]_vars

-----------------------------------------------------------------------------
(* C16: a JSR fetched at p with target t pushes the word (p + 2) mod 65536, *)
(* high byte first and then low byte, and sets PC = t; the RTS executed on  *)
(* the stack the JSR left sets PC = (p + 3) mod 65536 and puts SP back to   *)
(* its value before the JSR, for every SP and also where PC wraps.          *)

C16_JsrRtsReturn ==
  [][ /\ (IsStep /\ NextOpcode = \h20) =>
           LET p == registers.PC
               t == MemAt(memory, (p + 1) % 65536)
                      + 256 * MemAt(memory, (p + 2) % 65536)
               ret == (p + 2) % 65536
               sp == registers.SP
           IN  /\ registers'.PC = t
               /\ busWrites' = busWrites \o
                    << [addr |-> 256 + sp, val |-> ret \div 256],
                       [addr |-> 256 + ((sp - 1) % 256), val |-> ret % 256] >>
               /\ MemAt(memory', 256 + sp) = ret \div 256
               /\ MemAt(memory', 256 + ((sp - 1) % 256)) = ret % 256
               /\ registers'.SP = (sp - 2) % 256
      /\ (IsStep /\ NextOpcode = \h60 /\ lastOp = "step"
            /\ fetched.opcode = \h20) =>
           /\ registers'.PC = (fetched.addr + 3) % 65536
           /\ registers'.SP =
                busWrites[Len(busWrites) - 1].addr - STACK_BASE ]_vars

\* JSR at 0xFFFD with SP = 0x00: 0xFFFF pushed at 0x0100 and 0x01FF, and the
\* RTS has returned to 0x0000 with SP = 0x00
C16_Witness ==
  /\ lastOp = "step"
  /\ fetched.opcode = \h60
  /\ MemAt(memory, 65533) = \h20
  /\ MemAt(memory, 256) = 255
  /\ MemAt(memory, 511) = 255
  /\ registers.PC = 0
  /\ registers.SP = 0

-----------------------------------------------------------------------------
(* C17: the instruction counter is the number of calls of step() since the  *)
(* start: a step adds exactly 1 to it, whether the opcode is a mapped       *)
(* instruction, BRK or not in the table, and no other operation (reset(),   *)
(* the end of the run) changes it.  Every call of step() writes one line,   *)
(* "executed" or "unknown", so the calls are counted on the console.        *)

StepCalls ==
  Cardinality({ i \in DOMAIN console : console[i].kind \in {"executed", "unknown"} })

C17_CounterCountsSteps ==
  /\ [](cycle = StepCalls)
  /\ [][ /\ lastOp' = "step" => cycle' = cycle + 1
         /\ lastOp' # "step" => cycle' = cycle ]_vars

\* NOP, then the unmapped byte 0x02: two calls, the counter is 2
C17_Witness ==
  /\ cycle = 2
  /\ ~running
  /\ fetched.opcode = 2
  /\ console[1].kind = "executed"
  /\ console[2].kind = "unknown"

-----------------------------------------------------------------------------
(* C18: for every executed instruction, the PC written in the line of the   *)
(* step is the address its opcode byte was fetched from (PC before the      *)
(* fetch), whatever the length of the instruction, and for taken branches,  *)
(* JMP, JSR and RTS.                                                        *)

C18_TracePcIsFetchAddress ==
  [][ (IsStep /\ Mapped(NextOpcode)) =>
        /\ LastLine(console').kind = "executed"
        /\ LastLine(console').pc = toString16(registers.PC) ]_vars

-----------------------------------------------------------------------------
(* CMP #m for every A and m: LDA #q; PHA; PLP sets the flags all to 0 or    *)
(* all to 1, LDA #a loads A, and CMP #m follows.                            *)

CmpHead(q, a, m) == <<\hA9, q, \h48, \h28, \hA9, a, \hC9, m>>

InitCMP ==
  \E q \in {\h00, \hFF}, a \in Byte, m \in Byte : Drawn(CmpHead(q, a, m), 4)

SpecCMP == InitCMP /\ [][StepOnce]_vars

-----------------------------------------------------------------------------
(* C20: for every A and m, CMP #m leaves C = 1 iff A >= m, Z = 1 iff A = m, *)
(* N = bit 7 of (A - m) mod 256, and A, V and the other flags as they were; *)
(* the handler that masks the difference and the earlier one that keeps it  *)
(* unmasked give the same C, Z and N.                                       *)

C20_CmpImmediate ==
  [][ (IsStep /\ NextOpcode = \hC9) =>
        LET a == registers.A
            m == MemAt(memory, (registers.PC + 1) % 65536)
            d == (a - m) % 256
            u == cmpImmediateFund(fetchByte(CpuState).st)
        IN  /\ flags'.C = (IF a >= m THEN 1 ELSE 0)
            /\ flags'.Z = (IF a = m THEN 1 ELSE 0)
            /\ flags'.N = d \div 128
            /\ registers'.A = a
            /\ flags'.V = flags.V
            /\ flags'.B = flags.B /\ flags'.D = flags.D /\ flags'.I = flags.I
            /\ u.flags.C = flags'.C
            /\ u.flags.Z = flags'.Z
            /\ u.flags.N = flags'.N ]_vars

\* A = 0x10, CMP #$20 with every flag set before: C = 0, Z = 0, N = 1, V = 1
C20_Witness ==
  /\ lastOp = "step"
  /\ fetched.opcode = \hC9
  /\ MemAt(image, LOAD_ADDRESS + 1) = 255
  /\ MemAt(image, LOAD_ADDRESS + 7) = 32
  /\ registers.A = 16
  /\ flags.C = 0 /\ flags.Z = 0 /\ flags.N = 1 /\ flags.V = 1

-----------------------------------------------------------------------------
(* PHP then PLP on drawn flags: LDX #sp; TXS sets SP, LDA #q; PHA; PLP      *)
(* leaves the flags that q encodes, and PHP; PLP follow.                    *)

StatusHead(sp, q) == <<\hA2, sp, \h9A, \hA9, q, \h48, \h28, \h08, \h28>>

StackCorners == {\h00, \h01, \hFD, \hFF}

InitStatus ==
  \E sp \in StackCorners, q \in Byte : Drawn(StatusHead(sp, q), 5)

SpecStatus == InitStatus /\ [][Run]_vars

-----------------------------------------------------------------------------
(* C21: PHP stores packFlags() | 0x10 on the stack, a byte whose bits 4 and *)
(* 5 are 1, and leaves the seven flags unchanged; PHP immediately followed  *)
(* by PLP leaves N, V, D, I, Z, C and SP as before the PHP and B = 1        *)
(* whatever B was.                                                          *)

C21_PhpPlp ==
  [][ /\ (IsStep /\ NextOpcode = \h08) =>
           LET stored == MemAt(memory', STACK_BASE + registers.SP)
           IN  /\ busWrites' = busWrites \o
                    << [addr |-> STACK_BASE + registers.SP, val |-> stored] >>
               /\ stored = packFlags(CpuState) + (IF flags.B = 1 THEN 0 ELSE 16)
               /\ (stored \div 16) % 4 = 3
               /\ flags' = flags
               /\ registers'.SP = (registers.SP - 1) % 256
      /\ (IsStep /\ NextOpcode = \h28 /\ lastOp = "step"
            /\ fetched.opcode = \h08) =>
           /\ flags' = [flags EXCEPT !.B = 1]
           /\ registers'.SP = LastLine(busWrites).addr - STACK_BASE ]_vars

\* the flags N = 1, V = 1, B = 0, C = 1 with SP = 0x00 after PHP; PLP: the
\* byte 0xF1 lies at 0x0100, B has become 1 and SP is 0x00 again
C21_Witness ==
  /\ lastOp = "step"
  /\ fetched.opcode = \h28
  /\ cycle = 7
  /\ MemAt(image, LOAD_ADDRESS + 4) = \hC1
  /\ MemAt(memory, 256) = \hF1
  /\ flags = [N |-> 1, V |-> 1, B |-> 1, D |-> 0, I |-> 0, Z |-> 0, C |-> 1]
  /\ registers.SP = 0

-----------------------------------------------------------------------------
(* The stack helpers applied directly, for every SP: LDX #sp; TXS sets SP,  *)
(* then a byte or a word is pushed and pulled.  The words are those         *)
(* pushWord can be handed: jsr passes PC - 1, which is -1 when PC is 0.     *)

ByteValues == {\h00, \h01, \h7F, \h80, \hFF}

WordValues ==
  {0 - 1, \h0000, \h0001, \h00FF, \h0100, \h1234, \h7FFF, \h8000, \hFF00,
   \hFFFE, \hFFFF, \h10000, \h12345}

InitWords == \E sp \in Byte : Drawn(<<\hA2, sp, \h9A>>, 2)

PushByte ==
  /\ lastOp = "drawn"
  /\ \E v \in ByteValues : Install(pushByte(CpuState, v))
  /\ lastOp' = "pushByte"
  /\ UNCHANGED <<fetched, image, phase>>

PullByte ==
  /\ lastOp \in {"drawn", "pushByte"}
  /\ Install(pullByte(CpuState).st)
  /\ lastOp' = "pullByte"
  /\ UNCHANGED <<fetched, image, phase>>

PushWord ==
  /\ lastOp = "drawn"
  /\ \E v \in WordValues : Install(pushWord(CpuState, v))
  /\ lastOp' = "pushWord"
  /\ UNCHANGED <<fetched, image, phase>>

PullWord ==
  /\ lastOp = "pushWord"
  /\ Install(pullWord(CpuState).st)
  /\ lastOp' = "pullWord"
  /\ UNCHANGED <<fetched, image, phase>>

NextWords == PushByte \/ PullByte \/ PushWord \/ PullWord

SpecWords == InitWords /\ [][NextWords]_vars

-----------------------------------------------------------------------------
(* C22: every access of pushByte and pullByte is to an address in           *)
(* 0x0100..0x01FF, SP wrapping modulo 256 (a push at SP = 0x00 writes       *)
(* 0x0100 and leaves SP = 0xFF; a pull at SP = 0xFF leaves SP = 0x00 and    *)
(* reads 0x0100), and pullWord() right after pushWord(v) returns            *)
(* v mod 65536 and restores SP, for every v and every SP.                   *)

StackPage == 256..511

C22_StackWraps ==
  /\ [](\A v \in WordValues :
          LET r == pullWord(pushWord(CpuState, v))
          IN  /\ r.val = v % 65536
              /\ r.st.registers.SP = registers.SP)
  /\ [][ /\ lastOp' = "pushByte" =>
              LET w == LastLine(busWrites')
              IN  /\ Len(busWrites') = Len(busWrites) + 1
                  /\ w.addr = 256 + registers.SP
                  /\ w.addr \in StackPage
                  /\ MemAt(memory', w.addr) = w.val
                  /\ registers'.SP = (registers.SP - 1) % 256
         /\ lastOp' = "pullByte" =>
              LET a == 256 + ((registers.SP + 1) % 256)
              IN  /\ a \in StackPage
                  /\ pullByte(CpuState).val = MemAt(memory, a)
                  /\ registers'.SP = (registers.SP + 1) % 256
                  /\ memory' = memory
         /\ lastOp' = "pushWord" =>
              /\ Len(busWrites') = Len(busWrites) + 2
              /\ busWrites'[Len(busWrites) + 1].addr = 256 + registers.SP
              /\ busWrites'[Len(busWrites) + 2].addr =
                   256 + ((registers.SP - 1) % 256)
              /\ registers'.SP = (registers.SP - 2) % 256
         /\ lastOp' = "pullWord" =>
              /\ pullWord(CpuState).val =
                   256 * busWrites[Len(busWrites) - 1].val
                     + LastLine(busWrites).val
              /\ registers'.SP = busWrites[Len(busWrites) - 1].addr - 256 ]_vars

\* pushByte(0x80) at SP = 0x00 wrote 0x0100 and left SP = 0xFF; the pull has
\* read it back and left SP = 0x00
C22_Witness ==
  /\ lastOp = "pullByte"
  /\ busWrites = << [addr |-> 256, val |-> 128] >>
  /\ MemAt(memory, 256) = 128
  /\ registers.SP = 0

-----------------------------------------------------------------------------
(* ADC and SBC with the decimal flag set and clear: the preamble stores m   *)
(* at $10 (and holds it at $8001), executes SED or CLD, SEC or CLC, and     *)
(* loads a; then one of the ten ADC and SBC opcodes of the table follows.   *)

DecimalOp(d) == IF d = 1 THEN \hF8 ELSE \hD8

ArithmeticHandlers ==
  {"adcImmediate", "adcZeroPage", "adcAbsolute",
   "sbcImmediate", "sbcZeroPage", "sbcAbsolute"}

ArithmeticOpcodes ==
  { op \in DOMAIN instructionTable : instructionTable[op] \in ArithmeticHandlers }

\* operands on both sides of the decimal digits 9 and 99
DecimalOperands == {\h00, \h01, \h09, \h10, \h7F, \h80, \h99, \hFF}

DecimalHead(a, m, c, d, op) ==
  <<\hA9, m, \h85, \h10, DecimalOp(d), CarryOp(c), \hA9, a, op>>
    \o OperandFor(instructionTable[op], m)

InitDecimal ==
  \E a \in Byte, m \in DecimalOperands, c \in Bit, d \in Bit,
     op \in ArithmeticOpcodes :
    Drawn(DecimalHead(a, m, c, d, op), 5)

SpecDecimal == InitDecimal /\ [][StepOnce]_vars

-----------------------------------------------------------------------------
(* C23: the decimal flag has no part in the arithmetic: the state that      *)
(* differs from the current one only in D, executing the same ADC or SBC,   *)
(* ends with the same A, C, V, Z, N and PC, and D keeps its value in both.  *)

C23_DecimalIgnored ==
  [][ (IsStep /\ NextOpcode \in ArithmeticOpcodes) =>
        LET other == step([CpuState EXCEPT !.flags.D = 1 - flags.D])
        IN  /\ other.registers.A = registers'.A
            /\ other.registers.PC = registers'.PC
            /\ other.flags.C = flags'.C
            /\ other.flags.V = flags'.V
            /\ other.flags.Z = flags'.Z
            /\ other.flags.N = flags'.N
            /\ flags'.D = flags.D
            /\ other.flags.D = 1 - flags.D ]_vars

\* D = 1, C = 0, A = 0x09, ADC #$01: A = 0x0A, the binary sum
C23_Witness ==
  /\ lastOp = "step"
  /\ fetched.opcode = \h69
  /\ flags.D = 1
  /\ MemAt(image, LOAD_ADDRESS + 5) = \h18
  /\ MemAt(image, LOAD_ADDRESS + 7) = \h09
  /\ MemAt(image, LOAD_ADDRESS + 9) = \h01
  /\ registers.A = \h0A

-----------------------------------------------------------------------------
(* The seven flag instructions on every combination of the flags: LDX #x;   *)
(* LDY #y; LDA #q; PHA; PLP leaves X, Y, A and the flags that q encodes.    *)

FlagOps ==
  \h38 :> [flag |-> "C", to |-> 1] @@ \h18 :> [flag |-> "C", to |-> 0] @@
  \h78 :> [flag |-> "I", to |-> 1] @@ \h58 :> [flag |-> "I", to |-> 0] @@
  \hF8 :> [flag |-> "D", to |-> 1] @@ \hD8 :> [flag |-> "D", to |-> 0] @@
  \hB8 :> [flag |-> "V", to |-> 0]

FlagOpHead(q, op) == <<\hA2, \h11, \hA0, \h22, \hA9, q, \h48, \h28, op>>

InitFlagOps ==
  \E q \in Byte, op \in DOMAIN FlagOps : Drawn(FlagOpHead(q, op), 5)

SpecFlagOps == InitFlagOps /\ [][StepOnce]_vars

-----------------------------------------------------------------------------
(* C24: a step executing SEC, CLC, SEI, CLI, SED, CLD or CLV sets or clears *)
(* exactly the flag it names and leaves the other flags, A, X, Y, SP and    *)
(* the memory unchanged; besides that only PC and the instruction counter   *)
(* change, each by 1.                                                       *)

C24_FlagOpsFrame ==
  [][ (IsStep /\ NextOpcode \in DOMAIN FlagOps) =>
        LET o == FlagOps[NextOpcode]
        IN  /\ flags' = [flags EXCEPT ![o.flag] = o.to]
            /\ registers' = [registers EXCEPT !.PC = (registers.PC + 1) % 65536]
            /\ memory' = memory
            /\ cycle' = cycle + 1
            /\ running' = running
            /\ ppu' = ppu
            /\ busWrites' = busWrites ]_vars

\* CLV with every flag set: V = 0 and the other six are still 1
C24_Witness ==
  /\ lastOp = "step"
  /\ fetched.opcode = \hB8
  /\ flags = [N |-> 1, V |-> 0, B |-> 1, D |-> 1, I |-> 1, Z |-> 1, C |-> 1]
  /\ registers.A = 255 /\ registers.X = 17 /\ registers.Y = 34

-----------------------------------------------------------------------------
(* The table entries annotated with an indexed addressing mode, as the      *)
(* comments of the table name them, beside the unindexed entries of the     *)
(* same handlers.  The program stores m1 at $10 and m2 at $11, loads X and  *)
(* Y, sets or clears the carry, loads a, and executes the opcode on $10.    *)

IndexedOps ==
  \h75 :> [index |-> "X", zeroPage |-> TRUE, adc |-> TRUE] @@    \* ADC zp,X
  \h7D :> [index |-> "X", zeroPage |-> FALSE, adc |-> TRUE] @@   \* ADC abs,X
  \h71 :> [index |-> "Y", zeroPage |-> TRUE, adc |-> FALSE] @@   \* SBC zp,Y
  \h7E :> [index |-> "X", zeroPage |-> FALSE, adc |-> FALSE]     \* SBC abs,X

UnindexedOpcodes == {\h65, \h6D, \h61, \h6E}

IndexedHead(a, m1, m2, x, y, c, op) ==
  <<\hA9, m1, \h85, \h10, \hA9, m2, \h85, \h11, \hA2, x, \hA0, y,
    CarryOp(c), \hA9, a, op>>
    \o (IF instructionTable[op] \in AbsoluteForms THEN <<\h10, \h00>>
        ELSE <<\h10>>)

InitIndexed ==
  /\ \E a \in {\h00, \h10, \h7F}, m1 \in {\h00, \h01, \h80},
        m2 \in {\h00, \h01, \h80}, x \in Bit, y \in Bit, c \in Bit,
        op \in DOMAIN IndexedOps \cup UnindexedOpcodes :
       StartLoaded(IndexedHead(a, m1, m2, x, y, c, op), <<>>)
  /\ phase = "loaded"
  /\ lastOp = "load"

SpecIndexed == InitIndexed /\ [][NextCall]_vars

-----------------------------------------------------------------------------
(* C25: an opcode whose table entry is annotated with an indexed addressing *)
(* mode (0x75 ADC zp,X; 0x7D ADC abs,X; 0x71 SBC zp,Y; 0x7E SBC abs,X)      *)
(* takes its operand from the operand address plus the named index          *)
(* register, and so gives another result than the unindexed opcode of the   *)
(* same handler when the index is not 0 and the two bytes differ.           *)

C25_IndexedOpcodesUseIndex ==
  [][ (IsStep /\ NextOpcode \in DOMAIN IndexedOps) =>
        LET o == IndexedOps[NextOpcode]
            b1 == MemAt(memory, (registers.PC + 1) % 65536)
            b2 == MemAt(memory, (registers.PC + 2) % 65536)
            idx == registers[o.index]
            ea == IF o.zeroPage THEN (b1 + idx) % 256
                  ELSE (b1 + 256 * b2 + idx) % 65536
            m == MemAt(memory, ea)
            r == IF o.adc THEN registers.A + m + flags.C
                 ELSE registers.A - m - (1 - flags.C)
        IN  registers'.A = r % 256 ]_vars

-----------------------------------------------------------------------------
(* The two indexed handlers.  For ldaZeroPageX (0xB5) the program stores    *)
(* 0x55 at the operand address b and then 0xAA at (b + x) mod 256, loads X  *)
(* and clears A.  For staAbsoluteX (0xBD in the table) it loads X and A and *)
(* stores at w,X with w below, inside and above the PPU window, in the      *)
(* stack page and at the top of memory.                                     *)

LoadIndexedHead(b, x) ==
  <<\hA9, \h55, \h85, b, \hA9, \hAA, \h85, (b + x) % 256, \hA2, x,
    \hA9, \h00, \hB5, b>>

StoreIndexedHead(w, x, a) == <<\hA2, x, \hA9, a, \hBD, w % 256, w \div 256>>

StoreBases ==
  {\h0000, \h00FF, \h01FF, \h1FFF, \h2000, \h3F01, \h3FFF, \hFF01, \hFFFF}

InitIndexedAccess ==
  \/ \E b \in Byte, x \in Byte : Drawn(LoadIndexedHead(b, x), 6)
  \/ \E w \in StoreBases, x \in Byte, a \in {\h00, \h5A} :
       Drawn(StoreIndexedHead(w, x, a), 2)

SpecIndexedAccess == InitIndexedAccess /\ [][StepOnce]_vars

-----------------------------------------------------------------------------
(* C26: LDA zero-page,X with operand byte b reads the byte at               *)
(* (b + X) mod 256, so never outside 0x0000..0x00FF, and the absolute,X     *)
(* store with operand w writes A to the bus address (w + X) mod 65536, for  *)
(* every b, w and X; they take 2 and 3 instruction bytes.                   *)

C26_IndexedAddresses ==
  [][ /\ (IsStep /\ NextOpcode = \hB5) =>
           LET b == MemAt(memory, (registers.PC + 1) % 65536)
               ea == (b + registers.X) % 256
           IN  /\ ea \in Byte
               /\ registers'.A = MemAt(memory, ea)
               /\ registers'.PC = (registers.PC + 2) % 65536
               /\ memory' = memory
      /\ (IsStep /\ NextOpcode = \hBD) =>
           LET w == MemAt(memory, (registers.PC + 1) % 65536)
                      + 256 * MemAt(memory, (registers.PC + 2) % 65536)
               ea == (w + registers.X) % 65536
           IN  /\ busWrites' = busWrites \o
                    << [addr |-> ea, val |-> registers.A] >>
               /\ ~InWindow(ea) =>
                    /\ MemAt(memory', ea) = registers.A
                    /\ ppu' = ppu
               /\ InWindow(ea) =>
                    /\ memory' = memory
                    /\ ppu' = Append(ppu, [addr |-> 8192 + (ea % 8),
                                           value |-> registers.A])
               /\ registers'.PC = (registers.PC + 3) % 65536 ]_vars

\* LDA $FF,X with X = 2 has read 0xAA from 0x0001, not 0x0101
C26_Witness ==
  /\ lastOp = "step"
  /\ fetched.opcode = \hB5
  /\ MemAt(image, LOAD_ADDRESS + 13) = 255
  /\ registers.X = 2
  /\ MemAt(memory, 1) = \hAA
  /\ registers.A = \hAA

-----------------------------------------------------------------------------
(* C27: a halting step, of BRK or of a byte with no table entry, changes    *)
(* only PC (by 1, modulo 65536), the instruction counter (by 1) and the     *)
(* running flag: A, X, Y, SP, the seven flags, every memory byte and with   *)
(* it the stack are unchanged, and the PPU sink is not called.              *)

C27_HaltingStepFrame ==
  [][ (IsStep /\ (NextOpcode = 0 \/ ~Mapped(NextOpcode))) =>
        /\ registers' = [registers EXCEPT !.PC = (registers.PC + 1) % 65536]
        /\ flags' = flags
        /\ memory' = memory
        /\ busWrites' = busWrites
        /\ ppu' = ppu
        /\ cycle' = cycle + 1
        /\ running /\ ~running' ]_vars

\* SEC; LDA #$80; then BRK at 0x8003: C = 1, N = 1, B = 0 and I = 1 as before
C27_Witness ==
  /\ lastOp = "step"
  /\ ~running
  /\ fetched = [addr |-> LOAD_ADDRESS + 3, opcode |-> 0]
  /\ registers.PC = LOAD_ADDRESS + 4
  /\ registers.A = 128
  /\ registers.SP = 253
  /\ flags = [N |-> 1, V |-> 0, B |-> 0, D |-> 0, I |-> 1, Z |-> 0, C |-> 1]

-----------------------------------------------------------------------------
(* ROL A and ROR A for every A and C: SEC or CLC; LDA #a; then ROL A;       *)
(* ROR A, or ROR A alone.                                                   *)

RotateHead(a, c, ops) == <<CarryOp(c), \hA9, a>> \o ops

InitRotate ==
  \E a \in Byte, c \in Bit, ops \in {<<\h2A, \h6A>>, <<\h6A>>} :
    Drawn(RotateHead(a, c, ops), 2)

SpecRotate == InitRotate /\ [][Run]_vars

-----------------------------------------------------------------------------
(* C28: ROL A and ROR A rotate the nine bits of C and A: ROL A leaves       *)
(* A = (2 * A + C) mod 256 and C = the old bit 7 of A, ROR A leaves         *)
(* A = (A div 2) + 128 * C and C = the old bit 0 of A, and ROL A            *)
(* immediately followed by ROR A gives A and C their first values back.     *)

C28_RotateThroughCarry ==
  /\ [][ /\ (IsStep /\ NextOpcode = \h2A) =>
              /\ registers'.A = (2 * registers.A + flags.C) % 256
              /\ flags'.C = registers.A \div 128
         /\ (IsStep /\ NextOpcode = \h6A) =>
              /\ registers'.A = (registers.A \div 2) + 128 * flags.C
              /\ flags'.C = registers.A % 2 ]_vars
  /\ []( (cycle = 4 /\ fetched.opcode = \h6A
            /\ MemAt(image, LOAD_ADDRESS + 3) = \h2A) =>
           /\ registers.A = MemAt(image, LOAD_ADDRESS + 2)
           /\ CarryOp(flags.C) = MemAt(image, LOAD_ADDRESS) )

\* A = 0x81, C = 0: ROL A gave A = 0x02, C = 1, and ROR A has restored both
C28_Witness ==
  /\ cycle = 4
  /\ fetched.opcode = \h6A
  /\ MemAt(image, LOAD_ADDRESS) = \h18
  /\ MemAt(image, LOAD_ADDRESS + 3) = \h2A
  /\ registers.A = \h81
  /\ flags.C = 0

=============================================================================
